---- MODULE Spec2Model ----
(***************************************************************************)
(* Model of the SIMPLE lexical analyzer (SIMPLE-LEXICAL ANALYZER/SIMPLE.py).*)
(*                                                                         *)
(* A source text is a sequence of one-character strings.  Offsets are the  *)
(* 0-based offsets of Python's re module: the character at offset i of s   *)
(* is s[i+1].  The master regular expression is modelled rule by rule, in  *)
(* the order of TOKEN_SPECIFICATION; every iteration of the finditer loop  *)
(* of tokenize is one step of the state machine.                           *)
(***************************************************************************)
EXTENDS Integers, Sequences, FiniteSets, TLC

\* ------------------------------------------------------------------ bounds
\* Number of fragments an input text is assembled from.
MaxPieces == 4

\* Number of characters of an input text of operator characters.
MaxOpPieces == 3

\* ------------------------------------------------------- character classes
NoChar == ""

At(s, i) == IF i >= 0 /\ i < Len(s) THEN s[i + 1] ELSE NoChar

Slice(s, a, b) == SubSeq(s, a + 1, b)

UpperLetters ==
  << "A", "B", "C", "D", "E", "F", "G", "H", "I", "J", "K", "L", "M",
     "N", "O", "P", "Q", "R", "S", "T", "U", "V", "W", "X", "Y", "Z" >>

LowerLetters ==
  << "a", "b", "c", "d", "e", "f", "g", "h", "i", "j", "k", "l", "m",
     "n", "o", "p", "q", "r", "s", "t", "u", "v", "w", "x", "y", "z" >>

Digits == {"0", "1", "2", "3", "4", "5", "6", "7", "8", "9"}

Range(f) == {f[i] : i \in DOMAIN f}

UpperSet == Range(UpperLetters)

\* [A-Za-z_]
IdentStartChars == UpperSet \cup Range(LowerLetters) \cup {"_"}

\* [A-Za-z0-9_]  (also the word characters \b looks at)
WordChars == IdentStartChars \cup Digits

IsIdentStart(c) == c \in IdentStartChars

IsWordChar(c) == c \in WordChars

\* \s of the lookahead pattern (\v has no TLA+ string escape and is left out)
IsSpace(c) == c \in {" ", "\t", "\n", "\r", "\f"}

\* str.lower() on one character
LowerChar(c) ==
  IF c \in UpperSet
  THEN LowerLetters[CHOOSE i \in DOMAIN UpperLetters : UpperLetters[i] = c]
  ELSE c

\* value.lower()
Lower(w) == [i \in DOMAIN w |-> LowerChar(w[i])]

\* ------------------------------------------------------ language tables
DATA_TYPES ==
  { <<"i","n","t">>, <<"f","l","o","a","t">>, <<"c","h","a","r">>,
    <<"s","t","r","i","n","g">>, <<"t","e","x","t">>,
    <<"s","e","c","u","r","e">>, <<"b","o","o","l">>, <<"t","i","m","e">>,
    <<"d","a","t","e">>, <<"t","i","m","e","s","t","a","m","p">>,
    <<"a","r","r","a","y">>,
    <<"c","o","l","l","e","c","t","i","o","n">> }

KEYWORDS ==
  { <<"i","f">>, <<"d","o">>, <<"e","n","d">>, <<"n","e","x","t">>,
    <<"r","e","t","u","r","n">>, <<"g","l","o","b","a","l">>,
    <<"l","o","c","a","l">>, <<"g","e","t">>, <<"s","h","o","w">>,
    <<"l","e","t">>, <<"s","t","o","r","e">>, <<"t","r","y">>,
    <<"h","a","n","d","l","e">> }

RESERVED ==
  { <<"o","b","j","e","c","t">>, <<"f","o","r">>, <<"n","u","l","l">>,
    <<"m","a","i","n">>, <<"s","y","s","t","e","m">>,
    <<"e","r","r","o","r">> }

NOISE ==
  { <<"t","o">>, <<"t","h","e","n">>, <<"p","l","e","a","s","e">>,
    <<"d","o">> }

\* ------------------------------------------------------- the token rules
\* Each XxxEnd(s, p) is the end offset of the match of one rule of
\* TOKEN_SPECIFICATION attempted at offset p of s, or -1 when the rule does
\* not match there.

Min(S) == CHOOSE x \in S : \A y \in S : x <= y

\* /\*[\s\S]*?\*/   non-greedy: up to the first "*/" at or after p+2
MultiCommentEnd(s, p) ==
  IF At(s, p) = "/" /\ At(s, p + 1) = "*"
  THEN LET Q == {q \in (p + 2)..(Len(s) - 2) :
                    At(s, q) = "*" /\ At(s, q + 1) = "/"}
       IN IF Q = {} THEN -1 ELSE Min(Q) + 2
  ELSE -1

\* //[^\n]*
SingleCommentEnd(s, p) ==
  IF At(s, p) = "/" /\ At(s, p + 1) = "/"
  THEN Min({q \in (p + 2)..Len(s) : q = Len(s) \/ At(s, q) = "\n"})
  ELSE -1

\* the body ([^"\\]|\\.)*" of a string literal, scanned from offset q
RECURSIVE StringBodyEnd(_, _)
StringBodyEnd(s, q) ==
  IF q >= Len(s) THEN -1
  ELSE IF At(s, q) = "\"" THEN q + 1
  ELSE IF At(s, q) = "\\"
       THEN IF q + 1 < Len(s) /\ At(s, q + 1) # "\n"
            THEN StringBodyEnd(s, q + 2)
            ELSE -1
  ELSE StringBodyEnd(s, q + 1)

\* "([^"\\]|\\.)*"
StringEnd(s, p) ==
  IF At(s, p) = "\"" THEN StringBodyEnd(s, p + 1) ELSE -1

\* end of the longest run of digits starting at p (p itself when none)
DigitsEnd(s, p) ==
  Min({q \in p..Len(s) : q = Len(s) \/ At(s, q) \notin Digits})

\* \d+\.\d+
FloatEnd(s, p) ==
  LET e1 == DigitsEnd(s, p)
  IN IF e1 > p /\ At(s, e1) = "." /\ DigitsEnd(s, e1 + 1) > e1 + 1
     THEN DigitsEnd(s, e1 + 1)
     ELSE -1

\* \d+
IntEnd(s, p) == IF DigitsEnd(s, p) > p THEN DigitsEnd(s, p) ELSE -1

\* does the literal lit occur at offset p of s
LitAt(s, p, lit) ==
  /\ p + Len(lit) <= Len(s)
  /\ \A i \in 1..Len(lit) : s[p + i] = lit[i]

\* an alternation of literals: the first alternative, in order, that matches
AltEnd(s, p, alts) ==
  LET I == {i \in DOMAIN alts : LitAt(s, p, alts[i])}
  IN IF I = {} THEN -1 ELSE p + Len(alts[Min(I)])

ASSIGN_ALTS ==
  << <<"+","=">>, <<"-","=">>, <<"*","=">>, <<"/","=">>, <<"%","=">>,
     <<"~","=">>, <<"=">> >>

REL_ALTS ==
  << <<"<","=">>, <<">","=">>, <<"=","=">>, <<"!","=">>, <<"<">>, <<">">> >>

EXP_ALTS == << <<"*","*">>, <<"^">> >>

ARITH_ALTS == << <<"+">>, <<"-">>, <<"*">>, <<"/">>, <<"%">> >>

UNARY_ALTS == << <<"+","+">>, <<"-","-">> >>

LOGICAL_ALTS == << <<"&","&">>, <<"|","|">>, <<"!">> >>

\* [A-Za-z_][A-Za-z0-9_]*
IdentifierEnd(s, p) ==
  IF IsIdentStart(At(s, p))
  THEN Min({q \in (p + 1)..Len(s) : q = Len(s) \/ ~IsWordChar(At(s, q))})
  ELSE -1

\* [ \t]+
SkipEnd(s, p) ==
  IF At(s, p) \in {" ", "\t"}
  THEN Min({q \in (p + 1)..Len(s) : q = Len(s) \/ At(s, q) \notin {" ", "\t"}})
  ELSE -1

\* .   (any character but a newline)
MismatchEnd(s, p) ==
  IF p < Len(s) /\ At(s, p) # "\n" THEN p + 1 ELSE -1

\* the rule names, in the order of the list
TOKEN_SPECIFICATION ==
  << "MULTI_COMMENT", "SINGLE_COMMENT", "STRING", "FLOAT", "INT",
     "ASSIGN_OP", "REL_OP", "EXP_OP", "ARITH_OP", "UNARY_OP", "LOGICAL_OP",
     "LPAREN", "RPAREN", "LBRACKET", "RBRACKET", "COLON", "COMMA",
     "SEMICOLON", "IDENTIFIER", "NEWLINE", "SKIP", "MISMATCH" >>

RuleEnd(name, s, p) ==
  CASE name = "MULTI_COMMENT"  -> MultiCommentEnd(s, p)
    [] name = "SINGLE_COMMENT" -> SingleCommentEnd(s, p)
    [] name = "STRING"         -> StringEnd(s, p)
    [] name = "FLOAT"          -> FloatEnd(s, p)
    [] name = "INT"            -> IntEnd(s, p)
    [] name = "ASSIGN_OP"      -> AltEnd(s, p, ASSIGN_ALTS)
    [] name = "REL_OP"         -> AltEnd(s, p, REL_ALTS)
    [] name = "EXP_OP"         -> AltEnd(s, p, EXP_ALTS)
    [] name = "ARITH_OP"       -> AltEnd(s, p, ARITH_ALTS)
    [] name = "UNARY_OP"       -> AltEnd(s, p, UNARY_ALTS)
    [] name = "LOGICAL_OP"     -> AltEnd(s, p, LOGICAL_ALTS)
    [] name = "LPAREN"         -> AltEnd(s, p, << <<"(">> >>)
    [] name = "RPAREN"         -> AltEnd(s, p, << <<")">> >>)
    [] name = "LBRACKET"       -> AltEnd(s, p, << <<"[">> >>)
    [] name = "RBRACKET"       -> AltEnd(s, p, << <<"]">> >>)
    [] name = "COLON"          -> AltEnd(s, p, << <<":">> >>)
    [] name = "COMMA"          -> AltEnd(s, p, << <<",">> >>)
    [] name = "SEMICOLON"      -> AltEnd(s, p, << <<";">> >>)
    [] name = "IDENTIFIER"     -> IdentifierEnd(s, p)
    [] name = "NEWLINE"        -> AltEnd(s, p, << <<"\n">> >>)
    [] name = "SKIP"           -> SkipEnd(s, p)
    [] name = "MISMATCH"       -> MismatchEnd(s, p)

\* master_re attempted at offset p: the first rule of the list, from index i
\* on, that matches.  The result is the index of the rule, 0 when none does.
RECURSIVE FirstRule(_, _, _)
FirstRule(s, p, i) ==
  IF i > Len(TOKEN_SPECIFICATION) THEN 0
  ELSE IF RuleEnd(TOKEN_SPECIFICATION[i], s, p) # -1 THEN i
  ELSE FirstRule(s, p, i + 1)

MasterRule(s, p) == FirstRule(s, p, 1)

\* master_re.finditer resumed at offset pos: the leftmost offset at or after
\* pos where the master expression matches, as a match object
\* [kind, start, end]; NoMatch when the iterator is exhausted.
NoMatch == [kind |-> "", start |-> -1, end |-> -1]

RECURSIVE NextMatch(_, _)
NextMatch(s, pos) ==
  IF pos >= Len(s) THEN NoMatch
  ELSE LET r == MasterRule(s, pos)
       IN IF r = 0 THEN NextMatch(s, pos + 1)
          ELSE [kind |-> TOKEN_SPECIFICATION[r], start |-> pos,
                end |-> RuleEnd(TOKEN_SPECIFICATION[r], s, pos)]

\* ------------------------------------------------------------- tokenize
\* re.match(r'\s+do\b', code[next_index:]): the length m2.end() of the
\* match, 0 when m2 is None.
ToDoSkip(s, n) ==
  LET w == Min({q \in n..Len(s) : q = Len(s) \/ ~IsSpace(At(s, q))})
  IN IF w > n /\ At(s, w) = "d" /\ At(s, w + 1) = "o"
        /\ ~IsWordChar(At(s, w + 2))
     THEN w + 2 - n
     ELSE 0

TO == <<"t", "o">>

TO_DO_VALUE == <<"t", "o", " ", "d", "o">>

\* the elif chain with the NOISE test moved ahead of the KEYWORDS test
Classify_NoiseFirst(low) ==
  IF low \in DATA_TYPES THEN "DATATYPE"
  ELSE IF low \in NOISE THEN "NOISE"
  ELSE IF low \in KEYWORDS THEN "KEYWORD"
  ELSE IF low \in RESERVED THEN "RESERVED"
  ELSE "IDENTIFIER"

\* the elif chain over the four tables
Classify(low) ==
  IF low \in DATA_TYPES THEN "DATATYPE"
  ELSE IF low \in KEYWORDS THEN "KEYWORD"
  ELSE IF low \in RESERVED THEN "RESERVED"
  ELSE IF low \in NOISE THEN "NOISE"
  ELSE "IDENTIFIER"

\* the type given to a word matched by the IDENTIFIER rule, when ntokens
\* tokens have been emitted before it and the word ends at offset e
WordType(s, value, e, ntokens) ==
  IF Lower(value) = TO /\ ntokens > 0
  THEN IF ToDoSkip(s, e) > 0 THEN "TO_DO" ELSE "IDENTIFIER"
  ELSE Classify(Lower(value))

\* the dictionary appended to tokens
Token(type, value, line, column) ==
  [type |-> type, value |-> value, line |-> line, column |-> column]

StringToken(value, line, column) ==
  [type |-> "STRING", value |-> Slice(value, 1, Len(value) - 1),
   raw |-> value, line |-> line, column |-> column]

\* the message with the 0-based offset in the line in place of the column
ErrorMessage_ZeroBased(value, line, column) ==
  << "Invalid token '", value, "' at line ", line, ", column ", column - 1 >>

\* f"Invalid token '{value}' at line {line_num}, column {column}"
ErrorMessage(value, line, column) ==
  << "Invalid token '", value, "' at line ", line, ", column ", column >>

\* value.count("\n")
CountNewlines(v) == Cardinality({i \in DOMAIN v : v[i] = "\n"})

\* value.rfind("\n")  (0-based, -1 when absent)
RFindNewline(v) ==
  IF \E i \in DOMAIN v : v[i] = "\n"
  THEN (CHOOSE i \in DOMAIN v :
          v[i] = "\n" /\ \A j \in DOMAIN v : v[j] = "\n" => j <= i) - 1
  ELSE -1

\* token.get("raw", token.get("value", ""))
Lexeme(t) == IF "raw" \in DOMAIN t THEN t.raw ELSE t.value

\* the token appended for the match mo, given the locals of tokenize
NewToken(s, mo, ntokens, line, line_begin) ==
  LET kind == mo.kind
      value == Slice(s, mo.start, mo.end)
      column == mo.start - line_begin + 1
  IN CASE kind = "NEWLINE" -> Token("NEWLINE", <<"\n">>, line, column)
       [] kind = "SKIP" -> Token("WHITESPACE", value, line, column)
       [] kind \in {"MULTI_COMMENT", "SINGLE_COMMENT"} ->
            Token("COMMENT", value, line, column)
       [] kind = "STRING" -> StringToken(value, line, column)
       [] kind = "IDENTIFIER" ->
            LET t == WordType(s, value, mo.end, ntokens)
            IN Token(t, IF t = "TO_DO" THEN TO_DO_VALUE ELSE value,
                     line, column)
       [] kind \in {"FLOAT", "INT"} -> Token("NUMBER", value, line, column)
       [] kind = "MISMATCH" -> Token("LEXICAL_ERROR", value, line, column)
       [] OTHER -> Token(kind, value, line, column)

\* errors after the match mo
NewErrors(s, mo, errs, line, line_begin) ==
  IF mo.kind = "MISMATCH"
  THEN Append(errs, ErrorMessage(Slice(s, mo.start, mo.end), line,
                                 mo.start - line_begin + 1))
  ELSE errs

\* line_num after the match mo
NewLineNum(s, mo, line) ==
  CASE mo.kind = "NEWLINE" -> line + 1
    [] mo.kind = "MULTI_COMMENT" ->
         line + CountNewlines(Slice(s, mo.start, mo.end))
    [] OTHER -> line

\* line_start after the match mo
NewLineStart(s, mo, ntokens, line_begin) ==
  LET value == Slice(s, mo.start, mo.end)
  IN CASE mo.kind = "NEWLINE" -> mo.end
       [] mo.kind = "MULTI_COMMENT" ->
            IF RFindNewline(value) # -1
            THEN mo.start + RFindNewline(value) + 1
            ELSE line_begin
       [] mo.kind = "IDENTIFIER"
            /\ WordType(s, value, mo.end, ntokens) = "TO_DO" ->
            line_begin + ToDoSkip(s, mo.end) - 1
       [] OTHER -> line_begin

\* one iteration of "for mo in master_re.finditer(code)" on the locals st
LoopBody(s, st, mo) ==
  [pos |-> mo.end,
   matches |-> Append(st.matches, mo),
   tokens |-> Append(st.tokens,
                NewToken(s, mo, Len(st.tokens), st.line_num, st.line_start)),
   errors |-> NewErrors(s, mo, st.errors, st.line_num, st.line_start),
   line_num |-> NewLineNum(s, mo, st.line_num),
   line_start |-> NewLineStart(s, mo, Len(st.tokens), st.line_start)]

\* the locals of tokenize on entry
EntryState ==
  [pos |-> 0, tokens |-> << >>, errors |-> << >>, line_num |-> 1,
   line_start |-> 0, matches |-> << >>]

RECURSIVE RunLoop(_, _)
RunLoop(s, st) ==
  IF NextMatch(s, st.pos) = NoMatch THEN st
  ELSE RunLoop(s, LoopBody(s, st, NextMatch(s, st.pos)))

\* tokenize(code): the locals when the loop has ended
tokenize(s) == RunLoop(s, EntryState)

\* -------------------------------------------------------------- the files
\* What the user types at the prompt and what is on disk under that name.
Path(stem, suffix, exists, text) ==
  [stem |-> stem, suffix |-> suffix, exists |-> exists, text |-> text]

Suffixes == {".simple", ".txt"}

RECURSIVE Texts(_, _)
Texts(vocab, n) ==
  IF n = 0 THEN {<< >>}
  ELSE LET T == Texts(vocab, n - 1)
       IN T \cup {t \o f : t \in T, f \in vocab}

Files(vocab, n, suffixes) ==
  {Path("prog", x, TRUE, t) : x \in suffixes, t \in Texts(vocab, n)}
    \cup {Path("missing", x, FALSE, << >>) : x \in suffixes}

\* fragments the input texts are assembled from
GeneralVocab ==
  { <<"a">>, <<"t","o">>, <<"T","o">>, <<"d","o">>, <<" ">>, <<"\n">>,
    <<"@">>, <<"\"">>, <<"/","*">>, <<"*","/">> }

\* fragments for the operator rules
OperatorVocab ==
  { <<"a">>, <<"+">>, <<"-">>, <<"*">>, <<"/">>, <<"%">>, <<"~">>, <<"=">>,
    <<"<">>, <<">">>, <<"!">>, <<"&">>, <<"|">>, <<"^">> }

\* fragments for the word tables
WordVocab ==
  { <<"I","n","t">>, <<"D","o">>, <<"d","o">>, <<"f","o","r">>,
    <<"t","h","e","n">>, <<"t","o">>, <<"x">>, <<"1">>, <<" ">> }

\* fragments for the command-line front end
SmallVocab == { <<"a">>, <<"@">>, <<" ">>, <<"\n">> }

TABLE_ROWS == 40

ERRORS_SHOWN == 10

\* ------------------------------------------------------------------ state
VARIABLES
  pc,          \* position in main: "prompt", "scan", "report", "done"
  file,        \* the path entered at the prompt and the file behind it
  code,        \* the text read from the file
  pos,         \* offset at which finditer resumes
  tokens,      \* tokenize's tokens
  errors,      \* tokenize's errors
  line_num,    \* tokenize's line_num
  line_start,  \* tokenize's line_start
  matches,     \* the match objects finditer produced, one per token
  written,     \* names of the report files written so far
  report       \* what main printed: table rows and summary figures

vars ==
  << pc, file, code, pos, tokens, errors, line_num, line_start, matches,
     written, report >>

NoReport ==
  [message |-> "", rows |-> << >>, total |-> 0, meaningful |-> 0,
   errors |-> << >>]

InitWith(vocab, n, suffixes) ==
  /\ pc = "prompt"
  /\ file \in Files(vocab, n, suffixes)
  /\ code = << >>
  /\ pos = 0
  /\ tokens = << >>
  /\ errors = << >>
  /\ line_num = 1
  /\ line_start = 0
  /\ matches = << >>
  /\ written = {}
  /\ report = NoReport

Init == InitWith(GeneralVocab, MaxPieces, {".simple"})

InitOps == InitWith(OperatorVocab, MaxOpPieces, {".simple"})

InitWords == InitWith(WordVocab, MaxPieces, {".simple"})

InitCLI == InitWith(SmallVocab, MaxPieces, Suffixes)

\* main, when the path does not exist
MainFileNotFound ==
  /\ pc = "prompt"
  /\ ~file.exists
  /\ pc' = "done"
  /\ report' = [report EXCEPT !.message = "File not found"]
  /\ UNCHANGED << file, code, pos, tokens, errors, line_num, line_start,
                  matches, written >>

\* main reads the file and enters tokenize
MainRead ==
  /\ pc = "prompt"
  /\ file.exists
  /\ pc' = "scan"
  /\ code' = file.text
  /\ pos' = 0
  /\ tokens' = << >>
  /\ errors' = << >>
  /\ line_num' = 1
  /\ line_start' = 0
  /\ matches' = << >>
  /\ UNCHANGED << file, written, report >>

\* the local state of tokenize, as a record
ScanState ==
  [pos |-> pos, tokens |-> tokens, errors |-> errors, line_num |-> line_num,
   line_start |-> line_start, matches |-> matches]

TokenizeStep ==
  /\ pc = "scan"
  /\ \E mo \in {NextMatch(code, pos)} :
       /\ mo # NoMatch
       /\ \E r \in {LoopBody(code, ScanState, mo)} :
            /\ pos' = r.pos
            /\ tokens' = r.tokens
            /\ errors' = r.errors
            /\ line_num' = r.line_num
            /\ line_start' = r.line_start
            /\ matches' = r.matches
  /\ UNCHANGED << pc, file, code, written, report >>

\* tokenize returns; save_outputs writes the token dump and, when there are
\* errors, the error list (the contents of the files are not modelled)
SaveOutputs ==
  /\ pc = "scan"
  /\ NextMatch(code, pos) = NoMatch
  /\ pc' = "report"
  /\ written' = written \cup {<<file.stem, "_tokens.json">>}
                  \cup (IF errors # << >>
                        THEN {<<file.stem, "_lexer_errors.txt">>} ELSE {})
  /\ UNCHANGED << file, code, pos, tokens, errors, line_num, line_start,
                  matches, report >>

Meaningful(ts) ==
  SelectSeq(ts, LAMBDA t : t.type \notin {"WHITESPACE", "NEWLINE"})

Head_n(q, n) == SubSeq(q, 1, IF Len(q) < n THEN Len(q) ELSE n)

\* main prints the table of the first 40 meaningful tokens; show_summary
\* prints the totals and the first 10 errors
PrintReport ==
  /\ pc = "report"
  /\ pc' = "done"
  /\ report' =
       [message |-> "Analysis complete.",
        rows |-> [i \in DOMAIN Head_n(Meaningful(tokens), TABLE_ROWS) |->
                    LET t == Meaningful(tokens)[i]
                    IN << t.line, t.column, t.type, Lexeme(t) >>],
        total |-> Len(tokens),
        meaningful |-> Len(Meaningful(tokens)),
        errors |-> Head_n(errors, ERRORS_SHOWN)]
  /\ UNCHANGED << file, code, pos, tokens, errors, line_num, line_start,
                  matches, written >>

Next ==
  \/ MainFileNotFound
  \/ MainRead
  \/ TokenizeStep
  \/ SaveOutputs
  \/ PrintReport

Spec == Init /\ [][Next]_vars

SpecOps == InitOps /\ [][Next]_vars

SpecWords == InitWords /\ [][Next]_vars

SpecCLI == InitCLI /\ [][Next]_vars

\* ================================================================ claims
\* Reference notions the claims are stated with, defined on the input text
\* alone.

\* the text of the source the i-th token was matched from
Source(i) == Slice(code, matches[i].start, matches[i].end)

\* concatenation of the lexemes of the tokens ts
RECURSIVE Concat(_)
Concat(ts) == IF ts = << >> THEN << >> ELSE Lexeme(Head(ts)) \o Concat(Tail(ts))

\* 1 + the number of newlines before offset off
LineOf(s, off) == 1 + Cardinality({i \in 1..off : s[i] = "\n"})

\* the offset just past the last newline before offset off, 0 if none
LineBeginOf(s, off) ==
  LET N == {i \in 1..off : s[i] = "\n"}
  IN IF N = {} THEN 0 ELSE CHOOSE i \in N : \A j \in N : j <= i

\* length of the phrase tail "<spaces/tabs>do" at offset n when it is there
\* and ends at a word boundary, 0 otherwise
PhraseTail(s, n) ==
  LET w == Min({q \in n..Len(s) : q = Len(s) \/ At(s, q) \notin {" ", "\t"}})
  IN IF w > n /\ At(s, w) = "d" /\ At(s, w + 1) = "o"
        /\ At(s, w + 2) \notin WordChars
     THEN w + 2 - n
     ELSE 0

\* the i-th token comes from the word "to", in any letter case
IsToWord(i) ==
  /\ matches[i].kind = "IDENTIFIER"
  /\ Len(Source(i)) = 2
  /\ Source(i)[1] \in {"t", "T"}
  /\ Source(i)[2] \in {"o", "O"}

Scanned == pc \in {"report", "done"} /\ file.exists

\* C1: once the scan of an input is over, the raw lexemes of the tokens,
\* concatenated in emission order, are exactly the input, and the matches
\* the tokens come from tile the input without gap or overlap.
C1_Reconstruction ==
  Scanned =>
    /\ Concat(tokens) = code
    /\ \A i \in DOMAIN matches :
         matches[i].start = (IF i = 1 THEN 0 ELSE matches[i - 1].end)
    /\ (IF matches = << >> THEN 0 ELSE matches[Len(matches)].end) = Len(code)

\* C2: a word "to" followed by spaces/tabs and a word-boundary-terminated
\* "do" yields one TO_DO token with lexeme "to do", and no later token
\* starts inside the phrase; also when the phrase opens the input.
C2_PhraseRecognition ==
  \A i \in DOMAIN tokens :
    (IsToWord(i) /\ PhraseTail(code, matches[i].end) > 0) =>
      /\ tokens[i].type = "TO_DO"
      /\ tokens[i].value = <<"t", "o", " ", "d", "o">>
      /\ \A j \in DOMAIN tokens :
           j > i => matches[j].start >=
                      matches[i].end + PhraseTail(code, matches[i].end)

\* C3: a word "to" that is not followed by spaces/tabs and a
\* word-boundary-terminated "do" yields a NOISE token, whatever precedes it.
C3_LoneToIsNoise ==
  \A i \in DOMAIN tokens :
    (IsToWord(i) /\ PhraseTail(code, matches[i].end) = 0) =>
      tokens[i].type = "NOISE"

\* the two-character operators of the rule table and their kinds
TwoCharOperators ==
  { <<"+", "=", "ASSIGN_OP">>, <<"-", "=", "ASSIGN_OP">>,
    <<"*", "=", "ASSIGN_OP">>, <<"/", "=", "ASSIGN_OP">>,
    <<"%", "=", "ASSIGN_OP">>, <<"~", "=", "ASSIGN_OP">>,
    <<"<", "=", "REL_OP">>, <<">", "=", "REL_OP">>, <<"=", "=", "REL_OP">>,
    <<"!", "=", "REL_OP">>, <<"*", "*", "EXP_OP">>, <<"+", "+", "UNARY_OP">>,
    <<"-", "-", "UNARY_OP">>, <<"&", "&", "LOGICAL_OP">>,
    <<"|", "|", "LOGICAL_OP">> }

\* C4: where a token begins with a two-character operator of the rule
\* table, the token is that operator, whole, with the operator's own kind.
C4_OperatorLongestMatch ==
  \A i \in DOMAIN tokens : \A op \in TwoCharOperators :
    (At(code, matches[i].start) = op[1]
       /\ At(code, matches[i].start + 1) = op[2]) =>
      /\ matches[i].end = matches[i].start + 2
      /\ tokens[i].type = op[3]

\* C5: every token's line is 1 plus the number of newlines of the input
\* before the offset where the token begins.
C5_LineCorrect ==
  \A i \in DOMAIN tokens :
    tokens[i].line = LineOf(code, matches[i].start)

\* C6: every token's column is its offset from the start of its line plus
\* 1, hence at least 1.
C6_ColumnCorrect ==
  \A i \in DOMAIN tokens :
    /\ tokens[i].column =
         matches[i].start - LineBeginOf(code, matches[i].start) + 1
    /\ tokens[i].column >= 1

\* the LEXICAL_ERROR tokens, in emission order
ErrorTokens == SelectSeq(tokens, LAMBDA t : t.type = "LEXICAL_ERROR")

\* C7: there are as many errors as LEXICAL_ERROR tokens, and the i-th error
\* names the character, line and column of the i-th LEXICAL_ERROR token.
C7_ErrorCorrespondence ==
  /\ Len(errors) = Len(ErrorTokens)
  /\ \A i \in DOMAIN errors :
       /\ errors[i][1] = "Invalid token '"
       /\ errors[i][2] = ErrorTokens[i].value
       /\ errors[i][4] = ErrorTokens[i].line
       /\ errors[i][6] = ErrorTokens[i].column

\* C7 witness: a finished scan with two errors on different lines among
\* other tokens.
C7_Witness ==
  /\ Scanned
  /\ Len(errors) >= 2
  /\ errors[1][4] # errors[2][4]
  /\ Len(tokens) > Len(errors) + 1

\* kind and lexeme of the tokens ts
KindText(ts) == [i \in DOMAIN ts |-> <<ts[i].type, Lexeme(ts[i])>>]

\* C8: a LEXICAL_ERROR token holds one character, the next token begins
\* right after it, it accounts for exactly one error, and the tokens before
\* and after it are those of the text before and the text after it scanned
\* on their own.
C8_FallbackRecovery ==
  Scanned =>
    \A i \in DOMAIN tokens :
      tokens[i].type = "LEXICAL_ERROR" =>
        LET before == tokenize(Slice(code, 0, matches[i].start))
            after == tokenize(Slice(code, matches[i].end, Len(code)))
        IN /\ Len(tokens[i].value) = 1
           /\ matches[i].end = matches[i].start + 1
           /\ i < Len(tokens) => matches[i + 1].start = matches[i].end
           /\ Len(errors) = Len(before.errors) + 1 + Len(after.errors)
           /\ KindText(SubSeq(tokens, 1, i - 1)) = KindText(before.tokens)
           /\ KindText(SubSeq(tokens, i + 1, Len(tokens)))
                = KindText(after.tokens)

\* the tables in priority order, with the kind each gives
TablePriority ==
  << <<DATA_TYPES, "DATATYPE">>, <<KEYWORDS, "KEYWORD">>,
     <<RESERVED, "RESERVED">>, <<NOISE, "NOISE">> >>

FirstTableKind(low) ==
  LET I == {k \in DOMAIN TablePriority : low \in TablePriority[k][1]}
  IN IF I = {} THEN "IDENTIFIER" ELSE TablePriority[Min(I)][2]

\* C9: a word other than "to" gets the kind of the first table, in the
\* order Data-Type, Keyword, Reserved, Noise, that holds its lower-cased
\* text, IDENTIFIER when none does, and its text keeps the source's case.
C9_WordReclassification ==
  \A i \in DOMAIN tokens :
    (matches[i].kind = "IDENTIFIER" /\ ~IsToWord(i)) =>
      /\ tokens[i].type = FirstTableKind(Lower(Source(i)))
      /\ tokens[i].value = Source(i)

\* C9 witness: a finished scan holding the word "Do" (in two tables, mixed
\* case) as a KEYWORD and the mixed-case word "Int" as a DATATYPE.
C9_Witness ==
  /\ Scanned
  /\ \E i \in DOMAIN tokens :
       tokens[i].value = <<"D", "o">> /\ tokens[i].type = "KEYWORD"
  /\ \E i \in DOMAIN tokens :
       tokens[i].value = <<"I", "n", "t">> /\ tokens[i].type = "DATATYPE"

\* the extension the front end is said to insist on
DesignatedSuffix == ".simple"

\* C10: a path that does not exist or does not carry the designated
\* extension is never scanned and no report file is written for it.
C10_CliRejection ==
  (~file.exists \/ file.suffix # DesignatedSuffix) =>
    /\ pc \in {"prompt", "done"}
    /\ matches = << >>
    /\ tokens = << >>
    /\ written = {}

====
